---- MODULE Spec2Model ----
(***************************************************************************)
(* The feature-alignment and inference pipeline of src/app.py, a Streamlit *)
(* script.  Every user interaction re-executes the script top to bottom in *)
(* a fresh namespace; only the st.cache_resource store survives a rerun.   *)
(*                                                                         *)
(* Numbers are fixed point: a probability and a threshold are hundredths   *)
(* (0.45 is 45), every other numeric quantity is tenths (23.5 is 235).     *)
(* A Python value is a record [t, n, s]: t is the Python type, n the       *)
(* number (an int as is, a float in tenths), s the text of a str.          *)
(*                                                                         *)
(* Line 61 of app.py (MARRY_MAP) is not valid Python: a dict display with  *)
(* a bare third element.  The map is only a display label table            *)
(* (format_func) and plays no part in the values modelled here; the model  *)
(* follows the script's logic as written.                                  *)
(***************************************************************************)
EXTENDS Integers, Sequences, FiniteSets, TLC

(* ------------------------------ bounds --------------------------------- *)
\* number of schema features beyond the 15 hard-coded inputs
NumExtra == 2
\* number of leading input widgets whose value the operator varies
NumVaried == 1

(* --------------------------- Python values ----------------------------- *)
IntVal(n) == [t |-> "int", n |-> n, s |-> ""]
FloatVal(tenths) == [t |-> "float", n |-> tenths, s |-> ""]
StrVal(text) == [t |-> "str", n |-> 0, s |-> text]

Digits == <<"0", "1", "2", "3", "4", "5", "6", "7", "8", "9">>
Digit(d) == Digits[d + 1]

RECURSIVE IntStr(_)
IntStr(n) ==
  IF n < 0 THEN "-" \o IntStr(0 - n)
  ELSE IF n < 10 THEN Digit(n)
  ELSE IntStr(n \div 10) \o Digit(n % 10)

\* str(x) of Python / numpy: str(65) = "65", str(0.0) = "0.0", str("1") = "1"
PyStr(v) ==
  CASE v.t = "int" -> IntStr(v.n)
    [] v.t = "float" ->
         IF v.n < 0 THEN "-" \o IntStr((0 - v.n) \div 10) \o "." \o Digit((0 - v.n) % 10)
         ELSE IntStr(v.n \div 10) \o "." \o Digit(v.n % 10)
    [] v.t = "str" -> v.s

\* float(x) as the scaler's array conversion computes it, in tenths
ParseDigit(text) == CHOOSE d \in 0..9 : Digit(d) = text
NumTenths(v) ==
  CASE v.t = "int" -> 10 * v.n
    [] v.t = "float" -> v.n
    [] v.t = "str" -> 10 * ParseDigit(v.s)

(* ------------------------ the input widgets ---------------------------- *)
\* The 15 hard-coded inputs in the order the script creates them; options
\* lists what the widget can return, its initial value first (of a numeric
\* input: the initial value and the maximum).
CoreWidgets == <<
  [name |-> "gender", options |-> <<StrVal("1"), StrVal("2")>>],
  [name |-> "age", options |-> <<IntVal(65), IntVal(120)>>],
  [name |-> "rural", options |-> <<StrVal("1"), StrVal("2")>>],
  [name |-> "edu", options |-> <<StrVal("1"), StrVal("2"), StrVal("3"), StrVal("4")>>],
  [name |-> "marry", options |-> <<StrVal("1"), StrVal("2")>>],
  [name |-> "bmi", options |-> <<FloatVal(235), FloatVal(500)>>],
  [name |-> "systo", options |-> <<IntVal(130), IntVal(220)>>],
  [name |-> "diasto", options |-> <<IntVal(85), IntVal(150)>>],
  [name |-> "total_cognition", options |-> <<IntVal(25), IntVal(40)>>],
  [name |-> "srh", options |-> <<StrVal("3"), StrVal("1"), StrVal("2"), StrVal("4"), StrVal("5")>>],
  [name |-> "hibpe", options |-> <<StrVal("0"), StrVal("1")>>],
  [name |-> "diabe", options |-> <<StrVal("0"), StrVal("1")>>],
  [name |-> "hearte", options |-> <<StrVal("0"), StrVal("1")>>],
  [name |-> "smokev", options |-> <<StrVal("0"), StrVal("1")>>],
  [name |-> "exercise", options |-> <<StrVal("0"), StrVal("1")>>] >>

Range(seq) == {seq[i] : i \in 1..Len(seq)}
CoreNames == {CoreWidgets[i].name : i \in 1..Len(CoreWidgets)}
WidgetOf(k) == CHOOSE w \in Range(CoreWidgets) : w.name = k

\* what the operator enters: the first NumVaried widgets take any of their
\* options, the others stay at their initial value
VariedNames == {CoreWidgets[i].name : i \in 1..NumVaried}
Choices(k) ==
  IF k \in VariedNames THEN Range(WidgetOf(k).options)
  ELSE {WidgetOf(k).options[1]}
VariedAssignments ==
  {g \in [VariedNames -> UNION {Choices(k) : k \in VariedNames}] :
     \A k \in VariedNames : g[k] \in Choices(k)}
CoreRecords ==
  {[k \in CoreNames |-> IF k \in VariedNames THEN g[k] ELSE WidgetOf(k).options[1]] :
     g \in VariedAssignments}

\* st.number_input(feat, value=0.0): a float, initially 0.0
ExtraChoices == {FloatVal(0), FloatVal(25)}

TOP_15_FEATURES == <<"age", "gender", "bmi", "systo", "diasto", "total_cognition",
  "srh", "rural", "edu", "hibpe", "diabe", "hearte", "exercise", "smokev", "marry">>

\* the threshold box: st.number_input(label, 0.1, 0.9, 0.45, 0.01), in hundredths
MinThreshold == 10
MaxThreshold == 90
DefaultThreshold == 45
\* what the operator may try to enter in the threshold box
ThresholdAttempts == {0, MinThreshold, DefaultThreshold, MaxThreshold, 100}
\* mutant: a plain box, st.number_input(label, value=0.45), with no limits
NumberInputAccepts_Any(v, lo, hi) == TRUE
\* min_value and max_value of st.number_input
NumberInputAccepts(v, lo, hi) == lo <= v /\ v <= hi

\* the three options of the mode selectbox (their labels are Chinese text:
\* the placeholder, the simplified version, the full version)
Placeholder == "placeholder"
Simplified == "simplified"
Full == "full"
ModeOptions == {Placeholder, Simplified, Full}

(* ------------------------ the fitted artifacts ------------------------- *)
\* Python's None, and a name the running script has not bound yet
None == [kind |-> "none"]
Unbound == [kind |-> "unbound"]

ExtraName(i) == "x" \o IntStr(i)
ExtraNames == {ExtraName(i) : i \in 1..NumExtra}

\* A line of model_assets/feature_list.txt: parts is the stripped line split
\* at ". ", dotspace says whether the raw line (with its newline) holds ". ".
\* "3. \n" holds ". " but strips to "3.", which has no second part.
HeaderLine == [parts |-> <<"features">>, dotspace |-> FALSE]
NumberedLine(i, name) == [parts |-> <<IntStr(i), name>>, dotspace |-> TRUE]
CorruptLine == [parts |-> <<"3.">>, dotspace |-> TRUE]
FeatureFile(names) ==
  <<HeaderLine>> \o [i \in 1..Len(names) |-> NumberedLine(i, names[i])]

\* two schemas: every hard-coded input then the extra features; and a short
\* one, extras first, that leaves most hard-coded inputs out
SchemaA == TOP_15_FEATURES \o [i \in 1..NumExtra |-> ExtraName(i)]
SchemaB == [i \in 1..NumExtra |-> ExtraName(NumExtra + 1 - i)] \o <<"gender", "age">>

\* label_encoders.pkl: feature name -> LabelEncoder.classes_ (sorted labels)
EncodersA ==
  ("gender" :> <<"1", "2">>) @@ (ExtraName(1) :> <<"-1", "0", "1">>)
    @@ ("target" :> <<"0", "1">>)
EncodersB ==
  ("gender" :> <<"2", "3">>) @@ ("age" :> <<"120", "45", "65">>)
    @@ (ExtraName(2) :> <<"0.0", "2.5">>) @@ ("marry" :> <<"1", "2">>)

\* scaler.pkl: a StandardScaler fitted on n columns (mean_ in tenths, scale_)
ScalerFor(n) ==
  [kind |-> "scaler",
   center |-> [i \in 1..n |-> 10 * (i % 3)],
   scale |-> [i \in 1..n |-> 1 + (i % 2)]]

\* best_model*.pkl: a fitted classifier over n columns, an opaque
\* deterministic function of the scaled row
ModelFor(n, k) ==
  [kind |-> "model", bias |-> 15 * k, w |-> [i \in 1..n |-> k * i + 1]]

Bundle(schema, encs, k) ==
  [models |-> <<ModelFor(Len(schema), k), ModelFor(Len(schema), k + 2)>>,
   scaler |-> ScalerFor(Len(schema)),
   encoders |-> [kind |-> "dict", items |-> encs],
   features |-> FeatureFile(schema)]
Bundles ==
  {Bundle(SchemaA, EncodersA, 1), Bundle(SchemaA, EncodersB, 2),
   Bundle(SchemaB, EncodersA, 2), Bundle(SchemaB, EncodersB, 1)}

\* what can be wrong with model_assets/ when load_assets reads it
Damage == {"none", "model", "scaler", "encoders", "features", "corrupt_features"}
Disks == [bundle : Bundles, missing : Damage]

(* ------------------------------ load_assets ---------------------------- *)
\* glob.glob('model_assets/best_model*.pkl')
GlobModels(d) == IF d.missing = "model" THEN <<>> ELSE d.bundle.models
FeatureLines(d) ==
  IF d.missing = "corrupt_features" THEN Append(d.bundle.features, CorruptLine)
  ELSE d.bundle.features

\* [line.strip().split('. ')[1] for line in f.readlines() if '. ' in line]
ParseFeatureList(lines) ==
  LET kept == SelectSeq(lines, LAMBDA l : l.dotspace) IN
  IF \E i \in 1..Len(kept) : Len(kept[i].parts) < 2
    THEN [raised |-> TRUE, items |-> <<>>]
    ELSE [raised |-> FALSE, items |-> [i \in 1..Len(kept) |-> kept[i].parts[2]]]

Failure(msg) ==
  [model |-> None, scaler |-> None, encoders |-> None,
   feature_list |-> [kind |-> "str", text |-> msg]]

load_assets(d) ==
  IF Len(GlobModels(d)) = 0 THEN Failure("no model file (.pkl)")
  ELSE IF d.missing = "scaler" THEN Failure("No such file: scaler.pkl")
  ELSE IF d.missing = "encoders" THEN Failure("No such file: label_encoders.pkl")
  ELSE IF d.missing = "features" THEN Failure("No such file: feature_list.txt")
  ELSE LET parsed == ParseFeatureList(FeatureLines(d)) IN
    IF parsed.raised THEN Failure("list index out of range")
    ELSE [model |-> GlobModels(d)[1], scaler |-> d.bundle.scaler,
          encoders |-> d.bundle.encoders,
          feature_list |-> [kind |-> "list", items |-> parsed.items]]

\* @st.cache_resource: the first call's return value, success or failure, is
\* stored and handed back by every later call
EmptyCache == [kind |-> "empty"]
CachedCall(c, d) == IF c.kind = "entry" THEN c.value ELSE load_assets(d)
CacheAfter(c, d) == [kind |-> "entry", value |-> CachedCall(c, d)]

(* ------------------- the steps of the prediction block ----------------- *)
\* dict.get(k, default)
DictGet(d, k, default) == IF k \in DOMAIN d THEN d[k] ELSE default

\* a one-row DataFrame: its columns in order, each a name and the row's value
Columns(df) == {df[i].name : i \in 1..Len(df)}
ColumnValue(df, col) == df[CHOOSE i \in 1..Len(df) : df[i].name = col].val
SetColumn(df, col, v) ==
  IF col \in Columns(df)
    THEN [i \in 1..Len(df) |-> IF df[i].name = col THEN [name |-> col, val |-> v] ELSE df[i]]
    ELSE Append(df, [name |-> col, val |-> v])

\* a dict's keys as a sequence (the columns of pd.DataFrame([d]))
RECURSIVE KeySeq(_)
KeySeq(keys) ==
  IF keys = {} THEN <<>>
  ELSE LET k == CHOOSE x \in keys : TRUE IN <<k>> \o KeySeq(keys \ {k})

\* mutant: final_data[feat] = user_inputs.get(feat), the default forgotten
FinalData_NoDefault(fl, ui) ==
  [feat \in Range(fl) |-> DictGet(ui, feat, [t |-> "none", n |-> 0, s |-> ""])]
\* final_data = {}; for feat in feature_list: final_data[feat] = user_inputs.get(feat, 0)
FinalData(fl, ui) == [feat \in Range(fl) |-> DictGet(ui, feat, IntVal(0))]

\* mutant: input_df = pd.DataFrame([user_inputs]), the record taken as it came
AlignedFrame_Raw(fl, ui) ==
  LET ks == KeySeq(DOMAIN ui) IN [i \in 1..Len(ks) |-> [name |-> ks[i], val |-> ui[ks[i]]]]
\* input_df = pd.DataFrame([final_data])[feature_list]
AlignedFrame(fl, ui) ==
  LET fd == FinalData(fl, ui) IN [i \in 1..Len(fl) |-> [name |-> fl[i], val |-> fd[fl[i]]]]

\* LabelEncoder.transform([val])[0]: the label's index in classes_; an unseen
\* label raises ValueError
LeTransform(le, val) ==
  IF val \in Range(le)
    THEN [raised |-> FALSE, code |-> (CHOOSE i \in 1..Len(le) : le[i] = val) - 1]
    ELSE [raised |-> TRUE, code |-> 0]

\* mutant: the membership test dropped, transform called on every value
KnownLabel_Always(le, val) == TRUE
\* if val in le.classes_
KnownLabel(le, val) == val \in Range(le)

\* mutant: no "if col in input_df.columns": the encoder's column is written
\* whether the frame has it or not
EncodeColumn_NoGuard(df, col, le) ==
  LET val == PyStr(IF col \in Columns(df) THEN ColumnValue(df, col) ELSE IntVal(0)) IN
  IF KnownLabel(le, val) THEN SetColumn(df, col, IntVal(LeTransform(le, val).code))
  ELSE SetColumn(df, col, IntVal(0))
\* the body of "for col, le in encoders.items()"
EncodeColumn(df, col, le) ==
  IF col \in Columns(df)
    THEN LET val == PyStr(ColumnValue(df, col)) IN
         IF KnownLabel(le, val) THEN SetColumn(df, col, IntVal(LeTransform(le, val).code))
         ELSE SetColumn(df, col, IntVal(0))
    ELSE df

RECURSIVE EncodeLoop(_, _, _)
EncodeLoop(df, items, todo) ==
  IF todo = {} THEN df
  ELSE LET col == CHOOSE c \in todo : TRUE IN
       EncodeLoop(EncodeColumn(df, col, items[col]), items, todo \ {col})

\* whether le.transform raises somewhere in the loop
EncodeRaises(df, items) ==
  \E col \in DOMAIN items :
    /\ col \in Columns(df)
    /\ KnownLabel(items[col], PyStr(ColumnValue(df, col)))
    /\ LeTransform(items[col], PyStr(ColumnValue(df, col))).raised

\* scaler.transform(input_df): (x - mean_) / scale_ per column, in tenths;
\* a frame of another width raises ValueError
ScalerTransform(sc, df) ==
  IF Len(df) # Len(sc.center) THEN [raised |-> TRUE, row |-> <<>>]
  ELSE [raised |-> FALSE,
        row |-> [i \in 1..Len(df) |-> (NumTenths(df[i].val) - sc.center[i]) \div sc.scale[i]]]

RECURSIVE WeightedSum(_, _, _)
WeightedSum(w, x, n) == IF n = 0 THEN 0 ELSE w[n] * x[n] + WeightedSum(w, x, n - 1)
\* model.predict_proba(x)[:, 1][0], in hundredths
PredictProba(m, x) == (m.bias + WeightedSum(m.w, x, Len(x))) % 101

\* mutant: prob > optimal_threshold
IsHighRisk_Strict(p, t) == p > t
\* is_high_risk = prob >= optimal_threshold
IsHighRisk(p, t) == p >= t

\* remaining_features = [f for f in feature_list if f not in user_inputs]
RemainingFeatures(fl, ui) == {f \in Range(fl) : f \notin DOMAIN ui}
\* is_simplified = (the simplified label) in mode
IsSimplified(m) == m = Simplified

(* ------------------------------- state --------------------------------- *)
VARIABLES
  disk,              \* model_assets/ on disk: a bundle and what is damaged
  cache,             \* the st.cache_resource store of load_assets
  model, scaler, encoders, feature_list,   \* the script's globals (line 55)
  mode,              \* the mode selectbox's value
  user_inputs,       \* dict: feature name -> raw value
  optimal_threshold, \* the threshold box's value, in hundredths
  final_data,        \* dict: schema feature -> value
  input_df,          \* the one-row frame
  input_scaled,      \* the scaled row
  prob,              \* in hundredths; -1 while unbound
  is_high_risk,
  pc,                \* where the running script is; "idle" between runs
  shown,             \* what the page shows when the run has ended
  steps,             \* the pipeline steps this run has executed, in order
  remembered         \* one earlier completed inference, kept for comparison

assets == <<model, scaler, encoders, feature_list>>
locals == <<mode, user_inputs, optimal_threshold, final_data, input_df,
            input_scaled, prob, is_high_risk>>
vars == <<disk, cache, model, scaler, encoders, feature_list, mode, user_inputs,
          optimal_threshold, final_data, input_df, input_scaled, prob,
          is_high_risk, pc, shown, steps, remembered>>

NoCall == [kind |-> "none"]
ThisCall ==
  [kind |-> "call", mode |-> mode, record |-> user_inputs,
   threshold |-> optimal_threshold, encoded |-> input_df, prob |-> prob,
   high |-> is_high_risk]

\* a rerun starts from a fresh namespace
FreshLocals ==
  /\ mode = "unbound" /\ user_inputs = <<>> /\ optimal_threshold = -1
  /\ final_data = <<>> /\ input_df = <<>> /\ input_scaled = <<>>
  /\ prob = -1 /\ is_high_risk = FALSE

Init ==
  /\ disk \in Disks
  /\ cache = EmptyCache
  /\ model = Unbound /\ scaler = Unbound /\ encoders = Unbound
  /\ feature_list = Unbound
  /\ FreshLocals
  /\ pc = "idle"
  /\ shown = [kind |-> "nothing"]
  /\ steps = <<>>
  /\ remembered = NoCall

(* ------------------------- the script, step by step -------------------- *)
\* an interaction reruns the script: lines 1-55, ending with
\* model, scaler, encoders, feature_list = load_assets()
LoadAssets ==
  /\ pc = "idle"
  /\ cache' = CacheAfter(cache, disk)
  /\ model' = CachedCall(cache, disk).model
  /\ scaler' = CachedCall(cache, disk).scaler
  /\ encoders' = CachedCall(cache, disk).encoders
  /\ feature_list' = CachedCall(cache, disk).feature_list
  /\ mode' = "unbound" /\ user_inputs' = <<>> /\ optimal_threshold' = -1
  /\ final_data' = <<>> /\ input_df' = <<>> /\ input_scaled' = <<>>
  /\ prob' = -1 /\ is_high_risk' = FALSE
  /\ steps' = <<>>
  /\ shown' = [kind |-> "nothing"]
  /\ pc' = "guard"
  /\ UNCHANGED <<disk, remembered>>

\* mutant: the guard reports nothing and lets the script run on
ModelGuard_NoStop ==
  /\ pc = "guard"
  /\ pc' = "mode"
  /\ UNCHANGED <<disk, cache, assets, locals, shown, steps, remembered>>
\* if model is None: st.error(...); st.stop()
ModelGuard ==
  /\ pc = "guard"
  /\ IF model = None
       THEN /\ shown' = [kind |-> "load_error", text |-> feature_list.text]
            /\ pc' = "idle"
       ELSE /\ pc' = "mode"
            /\ UNCHANGED shown
  /\ UNCHANGED <<disk, cache, assets, locals, steps, remembered>>

\* mode = st.selectbox(...); the placeholder stops the script
SelectMode ==
  /\ pc = "mode"
  /\ \E m \in ModeOptions :
       /\ mode' = m
       /\ IF m = Placeholder
            THEN shown' = [kind |-> "choose_mode"] /\ pc' = "idle"
            ELSE pc' = "collect" /\ UNCHANGED shown
  /\ UNCHANGED <<disk, cache, assets, user_inputs, optimal_threshold, final_data,
                 input_df, input_scaled, prob, is_high_risk, steps, remembered>>

\* user_inputs = {}; the 15 widgets; in full mode one number_input for
\* every remaining schema feature
CollectInputs ==
  /\ pc = "collect"
  /\ \E core \in CoreRecords :
       \E extra \in [IF IsSimplified(mode) THEN {}
                     ELSE RemainingFeatures(feature_list.items, core) -> ExtraChoices] :
         user_inputs' = core @@ extra
  /\ pc' = "sidebar"
  /\ UNCHANGED <<disk, cache, assets, mode, optimal_threshold, final_data, input_df,
                 input_scaled, prob, is_high_risk, shown, steps, remembered>>

\* optimal_threshold = st.number_input(label, 0.1, 0.9, 0.45, 0.01): the box
\* takes no value outside its minimum and maximum
Sidebar ==
  /\ pc = "sidebar"
  /\ \E t \in ThresholdAttempts :
       /\ NumberInputAccepts(t, MinThreshold, MaxThreshold)
       /\ optimal_threshold' = t
  /\ pc' = "button"
  /\ UNCHANGED <<disk, cache, assets, mode, user_inputs, final_data, input_df,
                 input_scaled, prob, is_high_risk, shown, steps, remembered>>

\* if st.button(...): true only in the run the click started
Button ==
  /\ pc = "button"
  /\ \E clicked \in BOOLEAN :
       IF clicked THEN pc' = "align" /\ UNCHANGED shown
       ELSE pc' = "idle" /\ shown' = [kind |-> "form"]
  /\ UNCHANGED <<disk, cache, assets, locals, steps, remembered>>

\* lines 159-163
AlignStep ==
  /\ pc = "align"
  /\ final_data' = FinalData(feature_list.items, user_inputs)
  /\ input_df' = AlignedFrame(feature_list.items, user_inputs)
  /\ steps' = Append(steps, "align")
  /\ pc' = "encode"
  /\ UNCHANGED <<disk, cache, assets, mode, user_inputs, optimal_threshold,
                 input_scaled, prob, is_high_risk, shown, remembered>>

\* lines 168-174; an exception ends the run with the traceback on the page
EncodeStep ==
  /\ pc = "encode"
  /\ steps' = Append(steps, "encode")
  /\ IF EncodeRaises(input_df, encoders.items)
       THEN /\ pc' = "idle"
            /\ shown' = [kind |-> "exception"]
            /\ UNCHANGED input_df
       ELSE /\ input_df' = EncodeLoop(input_df, encoders.items, DOMAIN encoders.items)
            /\ pc' = "scale"
            /\ UNCHANGED shown
  /\ UNCHANGED <<disk, cache, assets, mode, user_inputs, optimal_threshold,
                 final_data, input_scaled, prob, is_high_risk, remembered>>

\* mutant: scaler.partial_fit(input_df) before the transform: the cached
\* scaler's mean_ moves toward every row it is shown
ScaleStep_PartialFit ==
  /\ pc = "scale"
  /\ Len(input_df) = Len(scaler.center)
  /\ scaler' = [scaler EXCEPT !.center =
                  [i \in 1..Len(input_df) |-> (scaler.center[i] + NumTenths(input_df[i].val)) \div 2]]
  /\ cache' = [cache EXCEPT !.value.scaler = scaler']
  /\ input_scaled' = ScalerTransform(scaler', input_df).row
  /\ steps' = Append(steps, "scale")
  /\ pc' = "score"
  /\ UNCHANGED <<disk, model, encoders, feature_list, mode, user_inputs,
                 optimal_threshold, final_data, input_df, prob, is_high_risk,
                 shown, remembered>>
\* input_scaled = scaler.transform(input_df)
ScaleStep ==
  /\ pc = "scale"
  /\ steps' = Append(steps, "scale")
  /\ IF ScalerTransform(scaler, input_df).raised
       THEN /\ pc' = "idle"
            /\ shown' = [kind |-> "exception"]
            /\ UNCHANGED input_scaled
       ELSE /\ input_scaled' = ScalerTransform(scaler, input_df).row
            /\ pc' = "score"
            /\ UNCHANGED shown
  /\ UNCHANGED <<disk, cache, assets, mode, user_inputs, optimal_threshold,
                 final_data, input_df, prob, is_high_risk, remembered>>

\* mutant: model.predict_proba(input_df), the unscaled frame scored
ScoreStep_Unscaled ==
  /\ pc = "score"
  /\ prob' = PredictProba(model, [i \in 1..Len(input_df) |-> NumTenths(input_df[i].val)])
  /\ steps' = Append(steps, "score")
  /\ pc' = "compare"
  /\ UNCHANGED <<disk, cache, assets, mode, user_inputs, optimal_threshold,
                 final_data, input_df, input_scaled, is_high_risk, shown, remembered>>
\* prob = model.predict_proba(input_scaled)[:, 1][0]
ScoreStep ==
  /\ pc = "score"
  /\ prob' = PredictProba(model, input_scaled)
  /\ steps' = Append(steps, "score")
  /\ pc' = "compare"
  /\ UNCHANGED <<disk, cache, assets, mode, user_inputs, optimal_threshold,
                 final_data, input_df, input_scaled, is_high_risk, shown, remembered>>

\* is_high_risk = prob >= optimal_threshold
CompareStep ==
  /\ pc = "compare"
  /\ is_high_risk' = IsHighRisk(prob, optimal_threshold)
  /\ steps' = Append(steps, "compare")
  /\ pc' = "report"
  /\ UNCHANGED <<disk, cache, assets, mode, user_inputs, optimal_threshold,
                 final_data, input_df, input_scaled, prob, shown, remembered>>

\* lines 188-207: the probability and the verdict are put on the page
Report ==
  /\ pc = "report"
  /\ shown' = [kind |-> "result", prob |-> prob, high |-> is_high_risk]
  /\ \E keep \in BOOLEAN : remembered' = IF keep THEN ThisCall ELSE remembered
  /\ pc' = "idle"
  /\ UNCHANGED <<disk, cache, assets, locals, steps>>

\* the operator restores what was missing from model_assets/
RepairDisk ==
  /\ pc = "idle"
  /\ disk.missing # "none"
  /\ disk' = [disk EXCEPT !.missing = "none"]
  /\ UNCHANGED <<cache, assets, locals, pc, shown, steps, remembered>>

Pipeline == AlignStep \/ EncodeStep \/ ScaleStep \/ ScoreStep \/ CompareStep \/ Report

Next ==
  \/ LoadAssets \/ ModelGuard \/ SelectMode \/ CollectInputs \/ Sidebar \/ Button
  \/ AlignStep \/ EncodeStep \/ ScaleStep \/ ScoreStep \/ CompareStep \/ Report
  \/ RepairDisk

Spec == Init /\ [][Next]_vars

(* ----------- the prediction block alone, on any record ----------------- *)
\* every partial record over a few keys: two hard-coded inputs, the extra
\* features and a key no schema has
PureKeys == {"gender", "age", "note"} \union ExtraNames
PureChoices(k) == IF k \in CoreNames THEN Range(WidgetOf(k).options) ELSE ExtraChoices
RECURSIVE RecordsOver(_)
RecordsOver(keys) ==
  IF keys = {} THEN {<<>>}
  ELSE LET k == CHOOSE x \in keys : TRUE
           rest == RecordsOver(keys \ {k})
       IN rest \union {r @@ (k :> v) : r \in rest, v \in PureChoices(k)}
PureRecords == RecordsOver(PureKeys)

InitInfer ==
  /\ disk \in {d \in Disks : d.missing = "none"}
  /\ cache = CacheAfter(EmptyCache, disk)
  /\ model = load_assets(disk).model
  /\ scaler = load_assets(disk).scaler
  /\ encoders = load_assets(disk).encoders
  /\ feature_list = load_assets(disk).feature_list
  /\ mode = "unbound"
  /\ user_inputs \in PureRecords
  /\ optimal_threshold \in {t \in ThresholdAttempts :
                              NumberInputAccepts(t, MinThreshold, MaxThreshold)}
  /\ final_data = <<>> /\ input_df = <<>> /\ input_scaled = <<>>
  /\ prob = -1 /\ is_high_risk = FALSE
  /\ pc = "align"
  /\ shown = [kind |-> "nothing"]
  /\ steps = <<>>
  /\ remembered = NoCall

SpecInfer == InitInfer /\ [][Pipeline]_vars

(* ------------------------------ properties ----------------------------- *)
Schema == feature_list.items
Registry == encoders.items
\* the code of a known label: its position in classes_, counted from 0
LabelCode(le, val) == CHOOSE c \in 0..(Len(le) - 1) : le[c + 1] = val

\* C1: whatever the record (empty, partial, with keys outside the schema),
\* the aligned vector has one entry per schema feature, in schema order, and
\* no key from outside the schema.
C1_AlignedShape ==
  pc = "encode" =>
    /\ Len(input_df) = Len(Schema)
    /\ \A i \in 1..Len(Schema) : input_df[i].name = Schema[i]
    /\ \A k \in DOMAIN user_inputs : k \notin Range(Schema) => k \notin Columns(input_df)
\* a partial record that also carries a key no schema has, aligned
C1_Witness ==
  /\ pc = "encode"
  /\ "note" \in DOMAIN user_inputs
  /\ \E f \in Range(Schema) : f \in DOMAIN user_inputs
  /\ \E f \in Range(Schema) : f \notin DOMAIN user_inputs

\* C2: in the aligned vector a schema feature present in the record carries
\* the record's raw value and an absent one carries the default 0, whatever
\* inference ran before.
C2_DefaultFill ==
  pc = "encode" =>
    \A i \in 1..Len(input_df) :
      input_df[i].val =
        IF input_df[i].name \in DOMAIN user_inputs
          THEN user_inputs[input_df[i].name] ELSE IntVal(0)
\* an earlier full-mode inference gave an extra feature the value 2.5; the
\* present record lacks that feature and the vector has just been aligned
C2_Witness ==
  /\ pc = "encode"
  /\ remembered.kind = "call"
  /\ \E f \in Range(Schema) :
       /\ f \notin DOMAIN user_inputs
       /\ f \in DOMAIN remembered.record
       /\ remembered.record[f] = FloatVal(25)

\* C3: a feature with a registered encoder is encoded to its label's code
\* when str(value) is a known label and to 0 otherwise, and the inference
\* goes on to a result: no run ends in an exception.
C3_EncodeOrFallback ==
  /\ pc = "scale" =>
       \A i \in 1..Len(input_df) :
         LET f == input_df[i].name IN
         f \in DOMAIN Registry =>
           input_df[i].val =
             IF PyStr(final_data[f]) \in Range(Registry[f])
               THEN IntVal(LabelCode(Registry[f], PyStr(final_data[f])))
               ELSE IntVal(0)
  /\ shown.kind # "exception"
  /\ (pc = "idle" /\ steps # <<>>) => shown.kind = "result"
\* a finished inference in which one encoded feature had an unknown label
\* and another a known label with a code other than 0
C3_Witness ==
  /\ pc = "idle" /\ shown.kind = "result"
  /\ \E f \in DOMAIN Registry \cap Range(Schema) :
       PyStr(final_data[f]) \notin Range(Registry[f])
  /\ \E f \in DOMAIN Registry \cap Range(Schema) :
       /\ PyStr(final_data[f]) \in Range(Registry[f])
       /\ ColumnValue(input_df, f).n > 0

\* C9: encoding changes only the columns of features that have an encoder;
\* an encoder for a name outside the schema adds no column; length and
\* column order stay as aligned.
C9_EncodeFrame ==
  pc = "scale" =>
    /\ Len(input_df) = Len(Schema)
    /\ \A i \in 1..Len(Schema) :
         /\ input_df[i].name = Schema[i]
         /\ Schema[i] \notin DOMAIN Registry => input_df[i].val = final_data[Schema[i]]
    /\ Columns(input_df) = Range(Schema)
\* encoded, with an encoder registered for a name the schema lacks and a
\* column that encoding changed
C9_Witness ==
  /\ pc = "scale"
  /\ \E col \in DOMAIN Registry : col \notin Range(Schema)
  /\ \E i \in 1..Len(input_df) : input_df[i].val # final_data[input_df[i].name]

PipelinePcs == {"align", "encode", "scale", "score", "compare", "report"}

\* C5 as stated: the inference validates the threshold first, before any
\* other step.
C5_ValidatesFirst == steps # <<>> => steps[1] = "validate"
\* C5 as amended: the prediction block has no validation step of its own;
\* the threshold box admits only 0.10 to 0.90, so every inference, and every
\* comparison, runs with a threshold strictly between 0 and 1.
C5_ThresholdInRange ==
  /\ pc \in PipelinePcs =>
       /\ MinThreshold <= optimal_threshold /\ optimal_threshold <= MaxThreshold
       /\ 0 < optimal_threshold /\ optimal_threshold < 100
  /\ \A i \in 1..Len(steps) : steps[i] # "validate"
\* a comparison made at the lowest threshold the box admits
C5_Witness ==
  pc = "report" /\ optimal_threshold = MinThreshold /\ steps[Len(steps)] = "compare"

\* C6: when load_assets has failed the error is shown and the script stops:
\* no step of the pipeline runs, in that run or any later one, even after
\* the files are restored.
LoadFailed == cache.kind = "entry" /\ cache.value.model = None
C6_RefusesAfterLoadFailure ==
  LoadFailed =>
    /\ pc \in {"idle", "guard"}
    /\ pc = "idle" => shown.kind = "load_error"
    /\ steps = <<>>
    /\ final_data = <<>> /\ input_df = <<>> /\ input_scaled = <<>> /\ prob = -1
\* a run started after the files were restored, the failure still cached
C6_Witness == LoadFailed /\ disk.missing = "none" /\ pc = "guard"

\* C7: an inference with the record and threshold of an earlier one returns
\* the earlier probability and verdict, whatever ran in between.
C7_SameCallSameResult ==
  (/\ pc = "report"
   /\ remembered.kind = "call"
   /\ remembered.record = user_inputs
   /\ remembered.threshold = optimal_threshold)
  => (remembered.prob = prob /\ remembered.high = is_high_risk)
\* the record and threshold of an earlier inference, inferred again
C7_Witness ==
  /\ pc = "report"
  /\ remembered.kind = "call"
  /\ remembered.record = user_inputs
  /\ remembered.threshold = optimal_threshold
  /\ DOMAIN user_inputs # CoreNames

\* C8: an inference that returns a result ran align, encode, scale, score,
\* compare in that order, none skipped, and the scorer was given the vector
\* as aligned, then encoded, then scaled.
StepOrder == <<"align", "encode", "scale", "score", "compare">>
C8_StepOrder ==
  /\ Len(steps) <= Len(StepOrder) /\ steps = SubSeq(StepOrder, 1, Len(steps))
  /\ (pc = "report" \/ shown.kind = "result") => steps = StepOrder
  /\ pc \in {"compare", "report"} =>
       /\ input_df = EncodeLoop(AlignedFrame(Schema, user_inputs), Registry, DOMAIN Registry)
       /\ input_scaled = ScalerTransform(scaler, input_df).row
       /\ prob = PredictProba(model, input_scaled)
\* a result on the page, from a row that scaling changed
C8_Witness ==
  /\ pc = "idle" /\ shown.kind = "result"
  /\ \E i \in 1..Len(input_df) : input_scaled[i] # NumTenths(input_df[i].val)

\* the present inference is in full mode with every additional field at its
\* default 0.0, and the remembered one was in simplified mode with the same
\* values of the 15 hard-coded inputs
FullDefaultsVsSimplified ==
  /\ pc = "report"
  /\ remembered.kind = "call"
  /\ remembered.mode = Simplified
  /\ mode = Full
  /\ \A k \in CoreNames : user_inputs[k] = remembered.record[k]
  /\ \A k \in DOMAIN user_inputs \ CoreNames : user_inputs[k] = FloatVal(0)
SameColumn(a, b) == a.name = b.name /\ NumTenths(a.val) = NumTenths(b.val)
SameVector(a, b) == Len(a) = Len(b) /\ \A i \in 1..Len(a) : SameColumn(a[i], b[i])
\* what the encoding loop makes of a label: its code, or 0 when unknown
CodeOrFallback(le, val) == IF val \in Range(le) THEN LabelCode(le, val) ELSE 0
\* an additional feature whose encoder tells "0.0" (full mode's default as
\* a string) from "0" (the string of alignment's fill value)
TellsDefaultsApart(f) ==
  /\ f \notin CoreNames
  /\ f \in DOMAIN Registry
  /\ CodeOrFallback(Registry[f], "0.0") # CodeOrFallback(Registry[f], "0")

\* C10 as stated: full mode with every additional field at 0.0 gives the
\* encoded vector, probability and verdict of simplified mode, for every
\* additional feature, encoded ones included.
C10_FullDefaultsEqualSimplified ==
  FullDefaultsVsSimplified =>
    /\ SameVector(input_df, remembered.encoded)
    /\ prob = remembered.prob
    /\ optimal_threshold = remembered.threshold => is_high_risk = remembered.high
\* What the script does instead: the two encoded vectors agree in every
\* column except those of additional features whose encoder gives the label
\* "0.0" another code than the label "0" (an unknown label counting as 0),
\* where they differ; when no schema feature is of that kind the probability
\* and the verdict agree as well.
C10_EqualUnlessEncoderTellsApart ==
  FullDefaultsVsSimplified =>
    /\ Len(input_df) = Len(remembered.encoded)
    /\ \A i \in 1..Len(input_df) :
         SameColumn(input_df[i], remembered.encoded[i]) <=> ~TellsDefaultsApart(Schema[i])
    /\ (\A i \in 1..Len(Schema) : ~TellsDefaultsApart(Schema[i])) =>
         /\ prob = remembered.prob
         /\ optimal_threshold = remembered.threshold => is_high_risk = remembered.high
\* the comparison made where one additional feature has an encoder that
\* tells the defaults apart and another additional feature has none
C10_Divergence ==
  /\ FullDefaultsVsSimplified
  /\ \E i \in 1..Len(Schema) : TellsDefaultsApart(Schema[i])
  /\ \E i \in 1..Len(Schema) : Schema[i] \notin CoreNames /\ Schema[i] \notin DOMAIN Registry
====
